---- MODULE Spec2Model ----
(***************************************************************************)
(* Model of the todo-rust command line program (src/src/lib.rs and         *)
(* src/src/main.rs): the storage provider, the todo entity, the menu       *)
(* engine and the application loop `run`.                                  *)
(*                                                                         *)
(* A line of text is a sequence of one-character strings.  The storage     *)
(* file is a sequence of tokens, each token a sequence of strings.         *)
(***************************************************************************)
EXTENDS Integers, Sequences, FiniteSets, TLC

\* ------------------------------------------------------------------ bounds
\* largest length the in-memory collection may reach through add
MaxTodos == 3
\* largest length of a collection already stored when the program starts
MaxInitTodos == 1

\* ------------------------------------------------------- small input sets
\* the identifiers Uuid::new_v4() may return, and a stored file may hold
Uuids == {"u1", "u2", "u3", "u4"}

\* the texts of the todos of a file that exists before the run
InitTexts == {<<"a">>, <<"1">>}

\* what the user may type at a menu (without the final newline)
MenuLines ==
  { <<>>, <<"0">>, <<" ", "0">>, <<"0", "0">>, <<"1">>, <<"2">>, <<"3">>,
    <<"a">> }

\* what the user may type at "Enter todo: " (without the final newline)
TodoLines ==
  { <<>>, <<" ">>, <<"0">>, <<" ", "0">>, <<"a">>, <<" ", "a">> }

\* ------------------------------------------------------------ Status, Todo
Status == {"Incomplete", "Done"}

\* ------------------------------------------------------ strings (std::str)
Whitespace == {" ", "\n", "\t"}

RECURSIVE trim_start(_)
trim_start(s) ==
  IF s # <<>> /\ Head(s) \in Whitespace THEN trim_start(Tail(s)) ELSE s

RECURSIVE trim_end(_)
trim_end(s) ==
  IF s # <<>> /\ s[Len(s)] \in Whitespace
  THEN trim_end(SubSeq(s, 1, Len(s) - 1)) ELSE s

trim(s) == trim_end(trim_start(s))

Digits == {"0", "1", "2", "3", "4", "5", "6", "7", "8", "9"}

DigitVal(c) ==
  CASE c = "0" -> 0 [] c = "1" -> 1 [] c = "2" -> 2 [] c = "3" -> 3
    [] c = "4" -> 4 [] c = "5" -> 5 [] c = "6" -> 6 [] c = "7" -> 7
    [] c = "8" -> 8 [] c = "9" -> 9

RECURSIVE DigitsValue(_)
DigitsValue(s) ==
  IF s = <<>> THEN 0
  ELSE 10 * DigitsValue(SubSeq(s, 1, Len(s) - 1)) + DigitVal(s[Len(s)])

\* str::parse::<usize>: an optional "+" followed by one or more digits
parse_usize(s) ==
  LET body == IF s # <<>> /\ Head(s) = "+" THEN Tail(s) ELSE s IN
    IF body # <<>> /\ \A i \in 1..Len(body) : body[i] \in Digits
    THEN [ok |-> TRUE, num |-> DigitsValue(body)]
    ELSE [ok |-> FALSE, num |-> 0]

\* the largest usize the model represents
usize_MAX == 2147483647

\* num - 1 on a usize: with overflow checks the subtraction 0 - 1 panics,
\* without them it wraps around
sub_one(num, checks) ==
  IF num >= 1 THEN [panic |-> FALSE, val |-> num - 1]
  ELSE IF checks THEN [panic |-> TRUE, val |-> 0]
  ELSE [panic |-> FALSE, val |-> usize_MAX]

\* --------------------------------------------------------------- prompt
\* read_line returns what was typed followed by the newline
read_line(typed) == typed \o <<"\n">>

\* prompt that compares the untrimmed line with "0"
prompt_untrimmed(typed) ==
  [exit |-> read_line(typed) = <<"0">>, input |-> trim(read_line(typed))]

\* prompt: the trimmed line, or the process exits with status 1 on "0"
prompt(typed) ==
  LET input == trim(read_line(typed)) IN
    [exit |-> input = <<"0">>, input |-> input]

\* ----------------------------------------------------------- get_option
\* one pass of the loop of get_option over n options, for the text `input`
\* that prompt returned
get_option(n, input, checks) ==
  LET p == parse_usize(input) IN
    IF p.ok /\ p.num <= n
    THEN LET d == sub_one(p.num, checks) IN
           IF d.panic THEN [kind |-> "panic", val |-> 0]
           ELSE [kind |-> "return", val |-> d.val]
    ELSE [kind |-> "invalid", val |-> 0]

\* ---------------------------------------------------------- list_options
\* list_options that offers both actions whatever the count
list_options_both(todo_count) ==
  <<"add a new todo", "complete a todo">>

list_options(todo_count) ==
  LET options == <<"add a new todo", "complete a todo">> IN
    IF todo_count = 0 THEN <<options[1]>> ELSE options

\* ------------------------------------------------- get_unfinished_todos
\* get_unfinished_todos that returns every entry
get_unfinished_todos_all(ts) == ts

RECURSIVE get_unfinished_todos(_)
get_unfinished_todos(ts) ==
  IF ts = <<>> THEN <<>>
  ELSE (IF Head(ts).status = "Incomplete" THEN <<Head(ts)>> ELSE <<>>)
       \o get_unfinished_todos(Tail(ts))

\* --------------------------------------------------------- Uuid::new_v4
\* the ids of a collection, and whether they are pairwise distinct
IdsOf(ts) == {ts[i].id : i \in 1..Len(ts)}
DistinctIds(ts) == \A i, j \in 1..Len(ts) : ts[i].id = ts[j].id => i = j

\* a generator that may return an identifier already in use
new_v4_any(used) == Uuids

\* what Uuid::new_v4() may return when the identifiers `used` exist: a
\* version 4 UUID is a random 122 bit value, modelled as a value that
\* differs from every identifier in use
new_v4(used) == Uuids \ used

\* ------------------------------------------------------------- Todo::new
\* Todo::new that gives every todo the same id
Todo_new_fixed_id(todo, id) ==
  IF Len(todo) = 0
  THEN [ok |-> FALSE, err |-> "todo cannot be empty"]
  ELSE [ok |-> TRUE, todo |-> [id |-> "u1", todo |-> todo, status |-> "Incomplete"]]

\* Todo::new without the check of the length
Todo_new_unchecked(todo, id) ==
  [ok |-> TRUE, todo |-> [id |-> id, todo |-> todo, status |-> "Incomplete"]]

Todo_new(todo, id) ==
  IF Len(todo) = 0
  THEN [ok |-> FALSE, err |-> "todo cannot be empty"]
  ELSE [ok |-> TRUE, todo |-> [id |-> id, todo |-> todo, status |-> "Incomplete"]]

\* -------------------------------------------------------------- add_todo
\* add_todo that inserts the new todo at the front
add_todo_prepend(ts, response, id) ==
  LET n == Todo_new(response, id) IN
    IF n.ok THEN [ok |-> TRUE, todos |-> <<n.todo>> \o ts, err |-> ""]
    ELSE [ok |-> FALSE, todos |-> ts, err |-> n.err]

\* add_todo for the text `response` that prompt returned; `id` is the value
\* of Uuid::new_v4()
add_todo(ts, response, id) ==
  LET n == Todo_new(response, id) IN
    IF n.ok THEN [ok |-> TRUE, todos |-> Append(ts, n.todo), err |-> ""]
    ELSE [ok |-> FALSE, todos |-> ts, err |-> n.err]

\* -------------------------------------------------- get_todo_to_complete
\* get_todo_to_complete that looks the chosen text up again: the id of the
\* first unfinished todo that has the text of the chosen one
get_todo_to_complete_by_text(unfinished_todos, option) ==
  IF option < Len(unfinished_todos)
  THEN LET k == CHOOSE i \in 1..Len(unfinished_todos) :
                  /\ unfinished_todos[i].todo = unfinished_todos[option + 1].todo
                  /\ \A j \in 1..(i - 1) :
                       unfinished_todos[j].todo # unfinished_todos[option + 1].todo
       IN [panic |-> FALSE, id |-> unfinished_todos[k].id]
  ELSE [panic |-> TRUE, id |-> ""]

\* unfinished_todos.get(option).unwrap().id.clone(): get is None, and the
\* unwrap panics, when option is not an index of the vector
get_todo_to_complete(unfinished_todos, option) ==
  IF option < Len(unfinished_todos)
  THEN [panic |-> FALSE, id |-> unfinished_todos[option + 1].id]
  ELSE [panic |-> TRUE, id |-> ""]

\* ---------------------------------------------------------- complete_todo
\* the scan: entries before the first match are set to Incomplete, the
\* match is set to Done and the scan returns; without a match every entry
\* has been set to Incomplete and the result is the error
RECURSIVE complete_scan(_, _, _)
complete_scan(id, done, rest) ==
  IF rest = <<>> THEN [ok |-> FALSE, todos |-> done]
  ELSE IF Head(rest).id = id
       THEN [ok |-> TRUE,
             todos |-> done \o <<[Head(rest) EXCEPT !.status = "Done"]>> \o Tail(rest)]
       ELSE complete_scan(id,
                          done \o <<[Head(rest) EXCEPT !.status = "Incomplete"]>>,
                          Tail(rest))

\* complete_todo that sets the matched entry to Done and touches no other
complete_todo_only_match(id, ts) ==
  IF \E i \in 1..Len(ts) : ts[i].id = id
  THEN LET k == CHOOSE i \in 1..Len(ts) :
                  ts[i].id = id /\ \A j \in 1..(i - 1) : ts[j].id # id
       IN [ok |-> TRUE, todos |-> [ts EXCEPT ![k].status = "Done"]]
  ELSE [ok |-> FALSE, todos |-> ts]

\* complete_todo whose scan stops before the last entry
complete_todo_skip_last(id, ts) ==
  IF ts = <<>> THEN [ok |-> FALSE, todos |-> ts]
  ELSE LET r == complete_scan(id, <<>>, SubSeq(ts, 1, Len(ts) - 1)) IN
         [ok |-> r.ok, todos |-> r.todos \o <<ts[Len(ts)]>>]

\* complete_todo that finds the entry and returns without setting Done
complete_todo_unset(id, ts) ==
  [ok |-> \E i \in 1..Len(ts) : ts[i].id = id, todos |-> ts]

complete_todo(id, ts) == complete_scan(id, <<>>, ts)

\* ------------------------------------------ serde_json: to_string, from_str
Punct(c) == <<c>>
StrTok(s) == <<"str">> \o s

ser_todo(t) ==
  << Punct("{"), StrTok(<<t.id>>), StrTok(t.todo), StrTok(<<t.status>>), Punct("}") >>

RECURSIVE ser_items(_)
ser_items(ts) ==
  IF ts = <<>> THEN <<>> ELSE ser_todo(Head(ts)) \o ser_items(Tail(ts))

to_string(ts) == <<Punct("[")>> \o ser_items(ts) \o <<Punct("]")>>

IsStrTok(tok) == Len(tok) >= 1 /\ tok[1] = "str"

de_ok(c) ==
  /\ c[1] = Punct("{")
  /\ IsStrTok(c[2]) /\ Len(c[2]) = 2
  /\ IsStrTok(c[3])
  /\ IsStrTok(c[4]) /\ Len(c[4]) = 2 /\ c[4][2] \in Status
  /\ c[5] = Punct("}")

de_todo(c) == [id |-> c[2][2], todo |-> Tail(c[3]), status |-> c[4][2]]

RECURSIVE de_items(_)
de_items(body) ==
  IF body = <<>> THEN [ok |-> TRUE, val |-> <<>>]
  ELSE IF Len(body) < 5 \/ ~de_ok(SubSeq(body, 1, 5)) THEN [ok |-> FALSE, val |-> <<>>]
  ELSE LET r == de_items(SubSeq(body, 6, Len(body))) IN
         IF r.ok THEN [ok |-> TRUE, val |-> <<de_todo(SubSeq(body, 1, 5))>> \o r.val]
         ELSE [ok |-> FALSE, val |-> <<>>]

from_str(content) ==
  IF Len(content) >= 2 /\ content[1] = Punct("[") /\ content[Len(content)] = Punct("]")
  THEN de_items(SubSeq(content, 2, Len(content) - 1))
  ELSE [ok |-> FALSE, val |-> <<>>]

\* ------------------------------------------------------------ FileProvider
\* outcomes of the I/O calls of read_todos and of write_todos
ReadIO == {"ok", "create_fails", "read_fails"}
WriteIO == {"ok", "fails_intact", "fails_truncated"}

EmptyFile == [exists |-> TRUE, content |-> <<>>]

\* read_todos that does not create the missing file
read_todos_nocreate(f, io) ==
  IF io = "read_fails" THEN [kind |-> "panic", file |-> f, todos |-> <<>>]
  ELSE LET r == from_str(f.content) IN
         [kind |-> "ok", file |-> f, todos |-> IF r.ok THEN r.val ELSE <<>>]

\* read_todos that rewrites a file it could not deserialize
read_todos_repairs(f, io) ==
  IF ~f.exists /\ io = "create_fails"
  THEN [kind |-> "err", file |-> f, todos |-> <<>>]
  ELSE LET f1 == IF f.exists THEN f ELSE EmptyFile IN
         IF io = "read_fails"
         THEN [kind |-> "panic", file |-> f1, todos |-> <<>>]
         ELSE LET r == from_str(f1.content) IN
                IF r.ok THEN [kind |-> "ok", file |-> f1, todos |-> r.val]
                ELSE [kind |-> "ok",
                      file |-> [exists |-> TRUE, content |-> to_string(<<>>)],
                      todos |-> <<>>]

\* read_todos: File::create(path)? when the path does not exist, then
\* read_to_string(path).unwrap(), then from_str(..).unwrap_or(Vec::new())
read_todos(f, io) ==
  IF ~f.exists /\ io = "create_fails"
  THEN [kind |-> "err", file |-> f, todos |-> <<>>]
  ELSE LET f1 == IF f.exists THEN f ELSE EmptyFile IN
         IF io = "read_fails"
         THEN [kind |-> "panic", file |-> f1, todos |-> <<>>]
         ELSE LET r == from_str(f1.content) IN
                [kind |-> "ok", file |-> f1,
                 todos |-> IF r.ok THEN r.val ELSE <<>>]

\* write_todos that appends to the file instead of replacing its content
write_todos_append(ts, f, io) ==
  IF io = "ok"
  THEN [ok |-> TRUE, file |-> [exists |-> TRUE, content |-> f.content \o to_string(ts)]]
  ELSE [ok |-> FALSE, file |-> f]

\* write_todos that reports success and leaves the file as it was
write_todos_noop(ts, f, io) ==
  IF io = "ok" THEN [ok |-> TRUE, file |-> f]
  ELSE [ok |-> FALSE, file |-> f]

\* write_todos: std::fs::write(path, to_string(&ts)?)?
write_todos(ts, f, io) ==
  CASE io = "ok" -> [ok |-> TRUE, file |-> [exists |-> TRUE, content |-> to_string(ts)]]
    [] io = "fails_intact" -> [ok |-> FALSE, file |-> f]
    [] io = "fails_truncated" -> [ok |-> FALSE, file |-> EmptyFile]

\* ------------------------------------------------------------------ state
VARIABLES
  overflow_checks,  \* whether the build panics on integer overflow
  file,             \* the storage file at config.path
  todos,            \* run: the live collection
  unfinished,       \* run: the unfinished subset of this iteration
  options,          \* run: the options of the main menu of this iteration
  pc,               \* where the process is
  todo_id,          \* run: the id handed to complete_todo
  input,            \* the text the last prompt returned
  response_option,  \* the index the last get_option returned, -1 before
  out,              \* the last message printed
  exit_status,      \* the exit status of the process, -1 while it runs
  last_op,          \* what the last step did
  nwrites,          \* successful writes of the file during the last step
  io_failed         \* the I/O call that failed, "none" if none did

vars == <<overflow_checks, file, todos, unfinished, options, pc, todo_id,
          input, response_option, out, exit_status, last_op, nwrites, io_failed>>

Prompts == {"menu", "add_prompt", "complete_menu"}
Ended == {"done", "error", "exit1", "panicked"}

\* ------------------------------------------------------------------- Init
InitTodo == [id : Uuids, todo : InitTexts, status : Status]

\* the stored collections a run may start from: their ids are distinct
InitCollections ==
  { c \in UNION { [1..n -> InitTodo] : n \in 0..MaxInitTodos } : DistinctIds(c) }

\* contents that exist on disk and do not deserialize to a Vec<Todo>
MalformedContents ==
  { <<>>,
    <<Punct("[")>>,
    <<Punct("{"), Punct("}")>>,
    <<Punct("["), Punct("{"), StrTok(<<"u1">>), StrTok(<<"a">>),
      StrTok(<<"Pending">>), Punct("}"), Punct("]")>> }

InitFiles ==
  { [exists |-> FALSE, content |-> <<>>] }
  \cup { [exists |-> TRUE, content |-> c] : c \in MalformedContents }
  \cup { [exists |-> TRUE, content |-> to_string(c)] : c \in InitCollections }

Init ==
  /\ overflow_checks \in BOOLEAN
  /\ file \in InitFiles
  /\ todos = <<>>
  /\ unfinished = <<>>
  /\ options = <<>>
  /\ pc = "start"
  /\ todo_id = ""
  /\ input = <<>>
  /\ response_option = -1
  /\ out = ""
  /\ exit_status = -1
  /\ last_op = "init"
  /\ nwrites = 0
  /\ io_failed = "none"

\* ---------------------------------------------------------------- helpers
\* the process ends: main printed `msg` and the exit status is `status`
End(where, msg, status) ==
  /\ pc' = where
  /\ out' = msg
  /\ exit_status' = status

\* top of the loop of run for the collection ts: lines 26-32
LoopTop(ts) ==
  /\ unfinished' = get_unfinished_todos(ts)
  /\ options' = list_options(Len(get_unfinished_todos(ts)))
  /\ pc' = "menu"

\* -------------------------------------------------------------------- run
\* main builds the Config and run loads the collection: line 23, then the
\* first pass of lines 26-32 up to the prompt of the main menu
Load(io) ==
  /\ pc = "start"
  /\ LET r == read_todos(file, io) IN
       /\ file' = r.file
       /\ todos' = r.todos
       /\ CASE r.kind = "ok" ->
                 /\ LoopTop(r.todos)
                 /\ UNCHANGED <<out, exit_status>>
                 /\ io_failed' = "none"
            [] r.kind = "err" ->
                 /\ End("error", "storage error", 0)
                 /\ io_failed' = "create"
                 /\ UNCHANGED <<unfinished, options>>
            [] r.kind = "panic" ->
                 /\ End("panicked", "panic", 101)
                 /\ io_failed' = "read"
                 /\ UNCHANGED <<unfinished, options>>
  /\ last_op' = IF file.exists THEN "load" ELSE "load_created"
  /\ nwrites' = 0
  /\ UNCHANGED <<overflow_checks, todo_id, input, response_option>>

\* one line answered at the main menu: get_option at line 32 and the match
\* at lines 34-47 up to the next prompt
MenuInput(typed) ==
  /\ pc = "menu"
  /\ LET p == prompt(typed)
         g == get_option(Len(options), p.input, overflow_checks) IN
       /\ input' = p.input
       /\ IF p.exit
          THEN /\ End("exit1", out, 1)
               /\ last_op' = "sentinel"
               /\ UNCHANGED response_option
          ELSE CASE g.kind = "invalid" ->
                      /\ out' = "Invalid option selected, try again."
                      /\ last_op' = "invalid"
                      /\ UNCHANGED <<pc, exit_status, response_option>>
                 [] g.kind = "panic" ->
                      /\ End("panicked", "panic", 101)
                      /\ last_op' = "overflow"
                      /\ UNCHANGED response_option
                 [] g.kind = "return" ->
                      /\ response_option' = g.val
                      /\ CASE g.val = 0 ->
                                /\ pc' = "add_prompt"
                                /\ last_op' = "select_add"
                                /\ UNCHANGED <<out, exit_status>>
                           [] g.val = 1 ->
                                /\ pc' = "complete_menu"
                                /\ last_op' = "select_complete"
                                /\ UNCHANGED <<out, exit_status>>
                           [] OTHER ->
                                /\ End("done", "done", 0)
                                /\ last_op' = "break"
  /\ nwrites' = 0
  /\ UNCHANGED <<overflow_checks, file, todos, unfinished, options, todo_id, io_failed>>

\* the write at line 49 that ends an iteration of the loop, after `before`
\* earlier writes of the iteration, and lines 26-32 of the next iteration
EndIteration(ts, f, io, before) ==
  LET w == write_todos(ts, f, io) IN
    /\ file' = w.file
    /\ IF w.ok
       THEN /\ LoopTop(ts)
            /\ nwrites' = before + 1
            /\ io_failed' = "none"
            /\ UNCHANGED exit_status
       ELSE /\ pc' = "error"
            /\ exit_status' = 0
            /\ nwrites' = before
            /\ io_failed' = "write"
            /\ UNCHANGED <<unfinished, options>>

\* one line answered at "Enter todo: ": add_todo at line 35, the arms at
\* lines 36-40 and the write at line 49
AddInput(typed, id, io1, io2) ==
  /\ pc = "add_prompt"
  /\ LET p == prompt(typed)
         a == add_todo(todos, p.input, id) IN
       /\ input' = p.input
       /\ IF p.exit
          THEN /\ End("exit1", out, 1)
               /\ last_op' = "sentinel"
               /\ nwrites' = 0
               /\ UNCHANGED <<file, todos, unfinished, options, io_failed>>
          ELSE IF ~a.ok
          THEN /\ last_op' = "add_err"
               /\ todos' = a.todos
               /\ EndIteration(a.todos, file, io2, 0)
               /\ out' = IF io2 = "ok" THEN a.err ELSE "storage error"
          ELSE /\ Len(todos) < MaxTodos
               /\ id \in new_v4(IdsOf(todos))
               /\ last_op' = "add_ok"
               /\ todos' = a.todos
               /\ LET w1 == write_todos(a.todos, file, io1) IN
                    IF w1.ok
                    THEN /\ EndIteration(a.todos, w1.file, io2, 1)
                         /\ out' = IF io2 = "ok" THEN "Todo added" ELSE "storage error"
                    ELSE /\ file' = w1.file
                         /\ End("error", "storage error", 0)
                         /\ nwrites' = 0
                         /\ io_failed' = "write"
                         /\ UNCHANGED <<unfinished, options>>
  /\ UNCHANGED <<overflow_checks, todo_id, response_option>>

\* one line answered at the sub-menu of get_todo_to_complete: lines 43-44
\* and the write at line 49
CompleteInput(typed, io) ==
  /\ pc = "complete_menu"
  /\ LET p == prompt(typed)
         g == get_option(Len(unfinished), p.input, overflow_checks) IN
       /\ input' = p.input
       /\ IF p.exit
          THEN /\ End("exit1", out, 1)
               /\ last_op' = "sentinel"
               /\ nwrites' = 0
               /\ UNCHANGED <<file, todos, unfinished, options, io_failed,
                              todo_id, response_option>>
          ELSE CASE g.kind = "invalid" ->
                      /\ out' = "Invalid option selected, try again."
                      /\ last_op' = "invalid"
                      /\ nwrites' = 0
                      /\ UNCHANGED <<pc, exit_status, file, todos, unfinished, options,
                                     io_failed, todo_id, response_option>>
                 [] g.kind = "panic" ->
                      /\ End("panicked", "panic", 101)
                      /\ last_op' = "overflow"
                      /\ nwrites' = 0
                      /\ UNCHANGED <<file, todos, unfinished, options, io_failed,
                                     todo_id, response_option>>
                 [] g.kind = "return" ->
                      /\ response_option' = g.val
                      /\ LET t == get_todo_to_complete(unfinished, g.val)
                             c == complete_todo(t.id, todos) IN
                           IF t.panic
                           THEN /\ End("panicked", "panic", 101)
                                /\ last_op' = "no_entry"
                                /\ nwrites' = 0
                                /\ UNCHANGED <<file, todos, unfinished, options,
                                               io_failed, todo_id>>
                           ELSE /\ todo_id' = t.id
                                /\ todos' = c.todos
                                /\ IF c.ok
                                   THEN /\ last_op' = "complete"
                                        /\ EndIteration(c.todos, file, io, 0)
                                        /\ out' = IF io = "ok" THEN out ELSE "storage error"
                                   ELSE \* complete_todo(..).unwrap() on Err
                                        /\ End("panicked", "panic", 101)
                                        /\ last_op' = "not_found"
                                        /\ nwrites' = 0
                                        /\ UNCHANGED <<file, unfinished, options, io_failed>>
  /\ UNCHANGED overflow_checks

\* --------------------------------------------------------- specifications
\* every I/O call succeeds
Next ==
  \/ Load("ok")
  \/ \E typed \in MenuLines : MenuInput(typed)
  \/ \E typed \in TodoLines, id \in Uuids : AddInput(typed, id, "ok", "ok")
  \/ \E typed \in MenuLines : CompleteInput(typed, "ok")

Spec == Init /\ [][Next]_vars

\* an I/O call may fail
NextIO ==
  \/ \E io \in ReadIO : Load(io)
  \/ \E typed \in MenuLines : MenuInput(typed)
  \/ \E typed \in TodoLines, id \in Uuids, io1 \in WriteIO, io2 \in WriteIO :
       AddInput(typed, id, io1, io2)
  \/ \E typed \in MenuLines, io \in WriteIO : CompleteInput(typed, io)

SpecIO == Init /\ [][NextIO]_vars

TypeOK ==
  /\ overflow_checks \in BOOLEAN
  /\ file.exists \in BOOLEAN
  /\ pc \in {"start"} \cup Prompts \cup Ended
  /\ \A i \in 1..Len(todos) : todos[i].status \in Status
  /\ exit_status \in {-1, 0, 1, 101}
  /\ nwrites \in 0..2

\* ------------------------------------------------------------ properties
\* what loading the storage file yields
Loaded(f) == read_todos(f, "ok").todos

\* the number of Incomplete entries of a collection
IncompleteCount(ts) == Cardinality({i \in 1..Len(ts) : ts[i].status = "Incomplete"})

\* C1: complete_todo with an id that matches an entry sets the matched
\* entry's status to Done and leaves every other entry as it was.
C1_CompleteOnlyMatched ==
  [][last_op' = "complete" =>
       /\ Len(todos') = Len(todos)
       /\ \E k \in 1..Len(todos) :
            /\ todos[k].id = todo_id'
            /\ todos'[k] = [todos[k] EXCEPT !.status = "Done"]
            /\ \A j \in 1..Len(todos) : j # k => todos'[j] = todos[j]]_vars

\* a line at the main menu that ends the loop with run returning Ok
ExitChoice ==
  \E typed \in MenuLines :
    /\ MenuInput(typed)
    /\ pc' = "done"
    /\ out' = "done"
    /\ exit_status' = 0

\* C2: from every state in which run waits at the main menu there is a
\* selection that ends the loop, after which run returns Ok and main prints
\* "done" with exit status 0.
C2_ExitChoiceExists ==
  /\ pc = "menu" => ENABLED ExitChoice
  /\ pc = "done" => out = "done" /\ exit_status = 0

\* the number of options of the menu the process waits at
ShownCount ==
  IF pc = "menu" THEN Len(options) ELSE Len(unfinished)

\* C3: get_option returns n-1 exactly when the line parses as an integer n
\* with 1 <= n <= len(options); every other line that is not the sentinel
\* prints the invalid-option message and prompts again.
C3_GetOptionContract ==
  [][(pc \in {"menu", "complete_menu"} /\ last_op' # "sentinel") =>
       LET p == parse_usize(input') IN
         IF p.ok /\ 1 <= p.num /\ p.num <= ShownCount
         THEN response_option' = p.num - 1 /\ last_op' \notin {"invalid", "overflow"}
         ELSE /\ last_op' = "invalid"
              /\ out' = "Invalid option selected, try again."
              /\ pc' = pc
              /\ response_option' = response_option]_vars

\* C4 as stated: an empty text at "Enter todo: " reports the validation
\* error, leaves the collection unchanged, keeps the loop running and writes
\* nothing to the storage file in that iteration.
C4_FailedAddNoWrite ==
  [][(pc = "add_prompt" /\ input' = <<>>) =>
       /\ last_op' = "add_err"
       /\ out' = "todo cannot be empty"
       /\ todos' = todos
       /\ pc' = "menu"
       /\ nwrites' = 0
       /\ file' = file]_vars

\* C4 as amended: an empty text at "Enter todo: " reports the validation
\* error, leaves the collection unchanged and keeps the loop running, and
\* the write that ends the iteration replaces the file by the serialized
\* unchanged collection.
C4_FailedAddRewrites ==
  [][(pc = "add_prompt" /\ input' = <<>>) =>
       /\ last_op' = "add_err"
       /\ out' = "todo cannot be empty"
       /\ todos' = todos
       /\ pc' = "menu"
       /\ nwrites' = 1
       /\ file' = [exists |-> TRUE, content |-> to_string(todos)]]_vars

C4_Witness ==
  /\ last_op = "add_err"
  /\ input = <<>>
  /\ pc = "menu"
  /\ nwrites = 1
  /\ todos = <<>>
  /\ file = [exists |-> TRUE, content |-> to_string(<<>>)]

\* C5: whenever run waits at a prompt, loading the storage file yields
\* exactly the in-memory collection.
C5_PersistedAtPrompt ==
  pc \in Prompts => file.exists /\ Loaded(file) = todos

C5_Witness ==
  /\ pc = "menu"
  /\ last_op = "complete"
  /\ \E i \in 1..Len(todos) : todos[i].status = "Done"
  /\ Loaded(file) = todos

\* C6: the main menu offers exactly the add option when no todo is
\* Incomplete and exactly add and complete otherwise; the sub-menu of
\* complete is never reached without an Incomplete todo.
C6_MenuOptions ==
  /\ pc = "menu" =>
       options = IF IncompleteCount(todos) = 0
                 THEN <<"add a new todo">>
                 ELSE <<"add a new todo", "complete a todo">>
  /\ pc = "complete_menu" => IncompleteCount(todos) > 0

C6_Witness ==
  /\ pc = "menu"
  /\ Len(todos) > 0
  /\ IncompleteCount(todos) = 0
  /\ Len(options) = 1

C8_LoadCreatesFile ==
  [][(pc = "start" /\ ~file.exists) =>
       /\ file' = EmptyFile
       /\ todos' = <<>>
       /\ pc' = "menu"
       /\ io_failed' = "none"]_vars

C8_Witness ==
  /\ last_op = "load_created"
  /\ pc = "menu"
  /\ file = EmptyFile
  /\ todos = <<>>

\* C9: for an existing file whose content is empty or does not deserialize,
\* read_todos returns the empty collection, not an error, and leaves the
\* file as it is; run goes on with no todos.
C9_LoadMalformed ==
  [][(pc = "start" /\ file.exists /\ file.content \in MalformedContents) =>
       /\ todos' = <<>>
       /\ file' = file
       /\ pc' = "menu"
       /\ options' = <<"add a new todo">>
       /\ io_failed' = "none"]_vars

C9_Witness ==
  /\ last_op = "load"
  /\ pc = "menu"
  /\ file.exists
  /\ file.content \in MalformedContents \ {<<>>}
  /\ todos = <<>>

\* C10: every failure of a storage call makes run return the error to main,
\* which prints it; none ends the process in another way.
C10_StorageFailureReturned ==
  io_failed # "none" => pc = "error" /\ out = "storage error"

\* C11: at every prompt the line "0" ends the process at once with exit
\* status 1: nothing is dispatched, the collection and the file stay as they
\* are, and the process takes no further step.
C11_SentinelExits ==
  [][/\ (pc \in Prompts /\ input' = <<"0">>) =>
          /\ pc' = "exit1"
          /\ exit_status' = 1
          /\ last_op' = "sentinel"
          /\ todos' = todos
          /\ file' = file
          /\ nwrites' = 0
          /\ response_option' = response_option
          /\ todo_id' = todo_id
     /\ pc # "exit1"]_vars

\* the sentinel was read at "Enter todo: " with a todo in the collection
C11_Witness ==
  /\ pc = "exit1"
  /\ exit_status = 1
  /\ input = <<"0">>
  /\ response_option = 0
  /\ Len(todos) > 0

\* C12 (first part): Todo::new on the empty text is the validation error
\* and nothing is created.
\* C12 (second part): on a non-empty text it yields a todo with that text,
\* status Incomplete and an id that no todo created earlier has.
C12_TodoNew ==
  [][pc = "add_prompt" /\ last_op' # "sentinel" =>
       IF input' = <<>>
       THEN /\ last_op' = "add_err"
            /\ out' = "todo cannot be empty"
            /\ todos' = todos
       ELSE /\ last_op' = "add_ok"
            /\ Len(todos') = Len(todos) + 1
            /\ todos'[Len(todos')].todo = input'
            /\ todos'[Len(todos')].status = "Incomplete"
            /\ todos'[Len(todos')].id \notin IdsOf(todos)]_vars

C12_Witness ==
  /\ last_op = "add_ok"
  /\ Len(todos) >= 2
  /\ todos[Len(todos)].status = "Incomplete"
  /\ todos[Len(todos)].todo = input
  /\ \A i \in 1..(Len(todos) - 1) : todos[i].id # todos[Len(todos)].id

\* whether a todo is unfinished
IsIncomplete(t) == t.status = "Incomplete"

\* C13: get_unfinished_todos returns exactly the Incomplete entries of the
\* collection, each as it is in the collection and in collection order, and
\* leaves the collection as it is.
C13_UnfinishedIsFilter ==
  [][pc' \in Prompts =>
       /\ unfinished' = SelectSeq(todos', IsIncomplete)
       /\ last_op' \in {"invalid", "select_add", "select_complete"} => todos' = todos]_vars

\* three tasks of which two are Done
C13_Witness ==
  /\ pc = "menu"
  /\ Len(todos) = 3
  /\ Len(unfinished) = 1
  /\ \E i \in 1..3 : todos[i].status = "Incomplete" /\ unfinished[1] = todos[i]

\* C14: after a successful write_todos of a collection the stored content
\* is the serialization of that collection alone, whatever the file held
\* before and however often it was written, and loading it returns the
\* collection.
C14_SaveReplaces ==
  [][nwrites' > 0 =>
       /\ file' = [exists |-> TRUE, content |-> to_string(todos')]
       /\ Loaded(file') = todos']_vars

\* two writes of the same collection, one of whose entries is Done
C14_Witness ==
  /\ last_op = "add_ok"
  /\ nwrites = 2
  /\ \E i \in 1..Len(todos) : todos[i].status = "Done"
  /\ file.content = to_string(todos)
  /\ Loaded(file) = todos

\* C15: the ids of the in-memory collection and of the stored collection
\* are pairwise distinct.
C15_IdsDistinct ==
  /\ DistinctIds(todos)
  /\ DistinctIds(Loaded(file))

C15_Witness ==
  /\ last_op = "complete"
  /\ pc = "menu"
  /\ Len(todos) = 3
  /\ Cardinality(IdsOf(todos)) = 3
  /\ Cardinality(IdsOf(Loaded(file))) = 3

\* C16: after the load no step removes or reorders an entry or changes the
\* id or the text of an entry; a successful add appends one entry at the
\* end and no other step changes the length.
C16_AppendOnly ==
  [][pc # "start" =>
       /\ Len(todos') >= Len(todos)
       /\ \A i \in 1..Len(todos) :
            /\ todos'[i].id = todos[i].id
            /\ todos'[i].todo = todos[i].todo
       /\ IF last_op' = "add_ok"
          THEN /\ Len(todos') = Len(todos) + 1
               /\ SubSeq(todos', 1, Len(todos)) = todos
               /\ todos'[Len(todos')].todo = input'
          ELSE Len(todos') = Len(todos)]_vars

C16_Witness ==
  /\ last_op = "add_ok"
  /\ Len(todos) = 3
  /\ todos[1].status = "Done"
  /\ todos[1].todo # todos[3].todo

\* the index of the entry complete_todo matches: the first with the id
MatchIndex(ts, id) ==
  CHOOSE k \in 1..Len(ts) : ts[k].id = id /\ \A j \in 1..(k - 1) : ts[j].id # id

\* C17 as stated: when the id matches an entry, complete_todo sets every
\* other entry, before or after the matched one, to Incomplete.
C17_AllOthersReset ==
  [][last_op' = "complete" =>
       \A j \in 1..Len(todos) :
         j # MatchIndex(todos, todo_id') => todos'[j].status = "Incomplete"]_vars

\* C17 as amended: when the id matches an entry, complete_todo sets the
\* matched entry to Done and every entry before it to Incomplete, and the
\* entries after it keep their status.
C17_EarlierReset ==
  [][last_op' = "complete" =>
       LET k == MatchIndex(todos, todo_id') IN
         /\ todos'[k].status = "Done"
         /\ \A j \in 1..Len(todos) :
              /\ j < k => todos'[j].status = "Incomplete"
              /\ j > k => todos'[j].status = todos[j].status]_vars

\* the match is the second of three entries and the third is still Done
C17_Witness ==
  /\ last_op = "complete"
  /\ Len(todos) = 3
  /\ todos[2].id = todo_id
  /\ todos[1].status = "Incomplete"
  /\ todos[2].status = "Done"
  /\ todos[3].status = "Done"

\* C18: run never reaches the not-found result of complete_todo: the id it
\* hands over is the id of an entry of the collection.
C18_NotFoundUnreachable ==
  /\ last_op # "not_found"
  /\ todo_id # "" => todo_id \in IdsOf(todos)

C18_Witness ==
  /\ last_op = "complete"
  /\ pc = "menu"
  /\ todo_id \in IdsOf(todos)
  /\ todos[Len(todos)].id = todo_id

\* the index in ts of its n-th Incomplete entry
NthIncomplete(ts, n) ==
  CHOOSE i \in 1..Len(ts) :
    /\ IsIncomplete(ts[i])
    /\ Cardinality({j \in 1..i : IsIncomplete(ts[j])}) = n

\* C19: when the user selects entry n of the sub-menu of complete, the
\* n-th Incomplete todo of the collection becomes Done, and no other todo
\* becomes Done.
C19_NthIncompleteDone ==
  [][last_op' = "complete" =>
       LET n == parse_usize(input').num
           k == NthIncomplete(todos, n) IN
         /\ response_option' = n - 1
         /\ todos'[k].status = "Done"
         /\ \A j \in 1..Len(todos) :
              (j # k /\ todos'[j].status = "Done") => todos[j].status = "Done"]_vars

\* the second of two unfinished todos with the same text was selected
C19_Witness ==
  /\ last_op = "complete"
  /\ response_option = 1
  /\ Len(todos) = 3
  /\ todos[3].id = todo_id
  /\ todos[3].status = "Done"
  /\ todos[2].todo = todos[3].todo
  /\ todos[2].status = "Incomplete"

\* C20: when no I/O call fails the process never panics, whatever is typed.
C20_NoPanic ==
  pc # "panicked"

====
